---- MODULE Spec2Model ----
(***************************************************************************)
(* Model of src/main.py of test-checker: the module-level functions        *)
(* parse_test_output, check_deadline, run_tests and process_assignment.    *)
(*                                                                         *)
(* Text is a sequence of tokens.  A token is one character or one          *)
(* indivisible piece of a literal the code looks for:                      *)
(*   "Test " "Suites:"  the two halves of the literal 'Test Suites:'       *)
(*   "pas" "sed"        the two halves of the word 'passed'                *)
(*   "total" ","        the word 'total', a comma                          *)
(*   " " "\t"           a space, a tab (both are \s, only " " is ' ')      *)
(*   "0" .. "9"         a decimal digit                                    *)
(*   "ESC"              one complete ANSI escape sequence (ESC [ ... m)    *)
(*   "x"                any other run of text ('Tests:', 'failed', ...)    *)
(*   "\n"               a line break                                       *)
(* The halves let an escape sequence sit inside a literal.                 *)
(***************************************************************************)
EXTENDS Integers, Sequences, FiniteSets, TLC

VARIABLES output, result, ppc,
          commit_date, soft, hard, status, dpc,
          roster, deadline, idx, cloned, results_lines, report, last, apc

parseVars == <<output, result, ppc>>
deadlineVars == <<commit_date, soft, hard, status, dpc>>
assignVars == <<roster, deadline, idx, cloned, results_lines, report, last, apc>>
vars == <<output, result, ppc, commit_date, soft, hard, status, dpc,
          roster, deadline, idx, cloned, results_lines, report, last, apc>>

(***************************************************************************)
(* Bounds of the explored inputs.                                          *)
(***************************************************************************)
MaxCount == 2
MaxLines == 2
MaxTime == 4
MaxRoster == 2
\* timestamps count ticks; a minute, the resolution of deadlines and of the
\* report's date column, has this many
TicksPerMinute == 2

(***************************************************************************)
(* Characters and literals.                                                *)
(***************************************************************************)
DigitChars == <<"0", "1", "2", "3", "4", "5", "6", "7", "8", "9">>

IsDigit(c) == \E i \in 1..10 : DigitChars[i] = c

DigitVal(c) == (CHOOSE i \in 1..10 : DigitChars[i] = c) - 1

IsSpace(c) == c \in {" ", "\t"}

TestSuitesLit == <<"Test ", "Suites:">>

PassedLit == <<"pas", "sed">>

SuitesTail1 == <<" ", "pas", "sed", ",", " ">>

SuitesTail2 == <<" ", "total">>

\* int(s) of a run of decimal digits
RECURSIVE ToInt(_)
ToInt(ds) ==
    IF Len(ds) = 0 THEN 0
    ELSE 10 * ToInt(SubSeq(ds, 1, Len(ds) - 1)) + DigitVal(ds[Len(ds)])

\* the decimal digits of a natural number
RECURSIVE NatStr(_)
NatStr(n) ==
    IF n < 10 THEN <<DigitChars[n + 1]>>
    ELSE NatStr(n \div 10) \o <<DigitChars[(n % 10) + 1]>>

\* the literal lit occurs in line at position p
HasLitAt(line, p, lit) ==
    /\ p >= 1
    /\ p + Len(lit) - 1 <= Len(line)
    /\ SubSeq(line, p, p + Len(lit) - 1) = lit

\* Python's  lit in line
Contains(line, lit) == \E p \in 1..Len(line) : HasLitAt(line, p, lit)

\* ansi_escape.sub('', line): every complete escape sequence is removed
ansi_escape_sub(line) == SelectSeq(line, LAMBDA c : c # "ESC")

\* str.split(sep): the pieces between the separators, empty ones included
RECURSIVE SplitOn(_, _)
SplitOn(text, sep) ==
    IF Len(text) = 0 THEN <<text>>
    ELSE LET rest == SplitOn(Tail(text), sep)
         IN IF text[1] = sep THEN <<(<<>>)>> \o rest
            ELSE <<(<<text[1]>> \o rest[1])>> \o Tail(rest)

\* output.split('\n')
split(text) == SplitOn(text, "\n")

(***************************************************************************)
(* The two regular expressions, matched the way re.search matches them:    *)
(* leftmost start, greedy runs.  A run of digits is followed by a          *)
(* non-digit in both patterns and a run of whitespace by a non-space, so   *)
(* only the maximal run can match and no backtracking is needed.           *)
(***************************************************************************)
\* last position of the maximal run of digits that starts at p; p - 1 when
\* the run is empty
RECURSIVE DigitsEnd(_, _)
DigitsEnd(line, p) ==
    IF p > Len(line) THEN p - 1
    ELSE IF IsDigit(line[p]) THEN DigitsEnd(line, p + 1)
    ELSE p - 1

\* the same for a run of whitespace
RECURSIVE SpacesEnd(_, _)
SpacesEnd(line, p) ==
    IF p > Len(line) THEN p - 1
    ELSE IF IsSpace(line[p]) THEN SpacesEnd(line, p + 1)
    ELSE p - 1

NoMatch == [found |-> FALSE, g1 |-> <<>>, g2 |-> <<>>]

\* (\d+)\s+passed anchored at position s
PassedAt(line, s) ==
    IF ~IsDigit(line[s]) THEN NoMatch
    ELSE LET de == DigitsEnd(line, s)
             we == SpacesEnd(line, de + 1)
         IN IF we >= de + 1 /\ HasLitAt(line, we + 1, PassedLit)
            THEN [found |-> TRUE, g1 |-> SubSeq(line, s, de), g2 |-> <<>>]
            ELSE NoMatch

RECURSIVE SearchPassedFrom(_, _)
SearchPassedFrom(line, s) ==
    IF s > Len(line) THEN NoMatch
    ELSE IF PassedAt(line, s).found THEN PassedAt(line, s)
    ELSE SearchPassedFrom(line, s + 1)

\* re.search(r'(\d+)\s+passed', line)
SearchPassed(line) == SearchPassedFrom(line, 1)

\* Test Suites:\s*(\d+) passed, (\d+) total anchored at position s
SuitesAt(line, s) ==
    IF ~HasLitAt(line, s, TestSuitesLit) THEN NoMatch
    ELSE LET we == SpacesEnd(line, s + Len(TestSuitesLit))
             d1 == DigitsEnd(line, we + 1)
         IN IF d1 >= we + 1 /\ HasLitAt(line, d1 + 1, SuitesTail1)
            THEN LET t1 == d1 + Len(SuitesTail1)
                     d2 == DigitsEnd(line, t1 + 1)
                 IN IF d2 >= t1 + 1 /\ HasLitAt(line, d2 + 1, SuitesTail2)
                    THEN [found |-> TRUE, g1 |-> SubSeq(line, we + 1, d1),
                          g2 |-> SubSeq(line, t1 + 1, d2)]
                    ELSE NoMatch
            ELSE NoMatch

RECURSIVE SearchSuitesFrom(_, _)
SearchSuitesFrom(line, s) ==
    IF s > Len(line) THEN NoMatch
    ELSE IF SuitesAt(line, s).found THEN SuitesAt(line, s)
    ELSE SearchSuitesFrom(line, s + 1)

\* re.search(r'Test Suites:\s*(\d+) passed, (\d+) total', line)
SearchSuites(line) == SearchSuitesFrom(line, 1)

(***************************************************************************)
(* parse_test_output                                                       *)
(***************************************************************************)
\* first if of the loop body: guard on the raw line, search on the clean one
SuitesMatch(line) ==
    IF Contains(line, TestSuitesLit) THEN SearchSuites(ansi_escape_sub(line))
    ELSE NoMatch

\* second if of the loop body, reached whenever the first one did not return
PassedMatch(line) ==
    IF Contains(line, PassedLit) THEN SearchPassed(ansi_escape_sub(line))
    ELSE NoMatch

\* variant: the total is taken from the first group
SuitesResult_PassedOnly(m) == <<ToInt(m.g1), ToInt(m.g1)>>

SuitesResult(m) == <<ToInt(m.g1), ToInt(m.g2)>>

\* variant: the fallback reports no total
PassedResult_NoTotal(m) == <<ToInt(m.g1), 0>>

PassedResult(m) == <<ToInt(m.g1), ToInt(m.g1)>>

\* variant: a bare 0, as TestRunner._parse_test_output returns
NoResult_Scalar == <<0>>

NoResult == <<0, 0>>

\* what one iteration of the loop does with a line
LineOutcome(line) ==
    IF SuitesMatch(line).found
    THEN [returns |-> TRUE, value |-> SuitesResult(SuitesMatch(line))]
    ELSE IF PassedMatch(line).found
    THEN [returns |-> TRUE, value |-> PassedResult(PassedMatch(line))]
    ELSE [returns |-> FALSE, value |-> NoResult]

\* variant: the last line that yields a result decides
ScanLines_LastWins(lines, i) ==
    IF \E j \in i..Len(lines) : LineOutcome(lines[j]).returns
    THEN LineOutcome(lines[CHOOSE j \in i..Len(lines) :
                              /\ LineOutcome(lines[j]).returns
                              /\ \A k \in (j + 1)..Len(lines) :
                                    ~LineOutcome(lines[k]).returns]).value
    ELSE <<0, 0>>

RECURSIVE ScanLines(_, _)
ScanLines(lines, i) ==
    IF i > Len(lines) THEN NoResult
    ELSE IF LineOutcome(lines[i]).returns THEN LineOutcome(lines[i]).value
    ELSE ScanLines(lines, i + 1)

parse_test_output(text) == ScanLines(split(text), 1)

(***************************************************************************)
(* check_deadline                                                          *)
(***************************************************************************)
\* The labels stand for the strings the code returns:
\*   "on_time_soft" 'до мягкого', "on_time_hard" 'до жёсткого',
\*   "late" 'дедлайн превышен'.
\* variant: strict comparisons
check_deadline_Strict(cd, s, h) ==
    IF cd < s THEN "on_time_soft"
    ELSE IF cd < h THEN "on_time_hard"
    ELSE "late"

check_deadline(cd, s, h) ==
    IF cd <= s THEN "on_time_soft"
    ELSE IF cd <= h THEN "on_time_hard"
    ELSE "late"

(***************************************************************************)
(* run_tests: a repository is what its project directories do when the     *)
(* install and test commands are run in them.  dirs are the digit-named    *)
(* directories in numeric order; with none, the commands run in the root.  *)
(* A directory is "unknown" (no package.json, no pyproject.toml),          *)
(* "install_fail" (the install command raises), "test_fail" (the test      *)
(* command exits non-zero) or "ran" (exit status 0, captured text out).    *)
(***************************************************************************)
\* variant: a directory whose commands fail counts as one failed test
DirResult_CountsFailure(d) ==
    IF d.kind = "ran" THEN parse_test_output(d.out) ELSE <<0, 1>>

DirResult(d) ==
    IF d.kind = "ran" THEN parse_test_output(d.out) ELSE <<0, 0>>

run_tests(repo) ==
    IF Len(repo.dirs) > 0
    THEN [i \in 1..Len(repo.dirs) |-> DirResult(repo.dirs[i])]
    ELSE <<DirResult(repo.root)>>

RECURSIVE SumOf(_, _)
SumOf(test_results, k) ==
    IF Len(test_results) = 0 THEN 0
    ELSE test_results[1][k] + SumOf(Tail(test_results), k)

\* passed, total and failed of a repository
RowCounts(test_results) ==
    [passed |-> SumOf(test_results, 1),
     failed |-> SumOf(test_results, 2) - SumOf(test_results, 1)]

(***************************************************************************)
(* process_assignment: the text of a report row.                           *)
(***************************************************************************)
\* str(n) in an f-string
IntStr(n) == IF n < 0 THEN <<"-">> \o NatStr(0 - n) ELSE NatStr(n)

\* commit_date.strftime('%Y-%m-%d %H:%M'): the seconds are dropped
strftime(t) == <<"T">> \o NatStr(t \div TicksPerMinute)

IsWhite(c) == c \in {" ", "\t", "\n"}

\* str.strip()
RECURSIVE strip(_)
strip(s) ==
    IF Len(s) = 0 THEN s
    ELSE IF IsWhite(s[1]) THEN strip(Tail(s))
    ELSE IF IsWhite(s[Len(s)]) THEN strip(SubSeq(s, 1, Len(s) - 1))
    ELSE s

\* repo_name.replace('.git', '')
DropGit(s) == SelectSeq(s, LAMBDA c : c # ".git")

\* f"{user_name}_{repo_name}" under temp_dir
RepoPath(parts) == parts[Len(parts) - 1] \o <<"_">> \o DropGit(parts[Len(parts)])

Row(name, passed, failed, date, stat) ==
    name \o <<"\t">> \o passed \o <<"\t">> \o failed \o <<"\t">> \o date
         \o <<"\t">> \o stat \o <<"\n">>

ErrorRow(name) == Row(name, <<"ERROR">>, <<"ERROR">>, <<"-">>, <<"-">>)

\* the commit date column
DateColumn(commit) ==
    IF commit.kind = "at" THEN strftime(commit.t) ELSE <<"-">>

\* variant: the classifier is called whether or not there is a commit date
StatusColumn_Unguarded(commit, dl) ==
    [args |-> {commit.kind},
     value |-> IF commit.kind = "at"
               THEN <<check_deadline(commit.t, dl.soft, dl.hard)>>
               ELSE <<"on_time_soft">>]

\* the deadline status column; args are the commit dates check_deadline was
\* called with
StatusColumn(commit, dl) ==
    IF commit.kind = "at"
    THEN [args |-> {commit.kind},
          value |-> <<check_deadline(commit.t, dl.soft, dl.hard)>>]
    ELSE [args |-> {}, value |-> <<"-">>]

\* order of the characters used in names
CharOrder == <<"\t", " ", "/", "ann", "bob", "cy">>

Rank(c) == CHOOSE i \in 1..Len(CharOrder) : CharOrder[i] = c

\* a < b for strings
StrLess(a, b) ==
    \E k \in 1..(Len(b)) :
        /\ k <= Len(a) + 1
        /\ \A j \in 1..(k - 1) : a[j] = b[j]
        /\ (k = Len(a) + 1 \/ Rank(a[k]) < Rank(b[k]))

\* variant: the rows stay in roster order
SortByName_None(rows) == rows

\* results_lines.sort(key=lambda x: x[0]): stable, ascending by name
RECURSIVE SortByName(_)
SortByName(rows) ==
    IF Len(rows) <= 1 THEN rows
    ELSE LET e == rows[Len(rows)]
             rest == SortByName(SubSeq(rows, 1, Len(rows) - 1))
             keep == Cardinality({i \in 1..Len(rest) : ~StrLess(e[1], rest[i][1])})
         IN SubSeq(rest, 1, keep) \o <<e>> \o SubSeq(rest, keep + 1, Len(rest))

(***************************************************************************)
(* The repositories the students hand in.                                  *)
(***************************************************************************)
\* 'Test Suites: N passed, M total'
SuitesLine(n, m) == TestSuitesLit \o <<" ">> \o n \o SuitesTail1 \o m \o SuitesTail2

Suites12 == SuitesLine(<<"1">>, <<"2">>)

Suites21 == SuitesLine(<<"2">>, <<"1">>)

SampleOutputs == {Suites12, Suites21}

DirOutcomes ==
    {[kind |-> k, out |-> <<>>] : k \in {"unknown", "install_fail", "test_fail"}}
    \cup {[kind |-> "ran", out |-> t] : t \in SampleOutputs}

\* repositories without digit-named directories, and two with two of them
Repos ==
    {[dirs |-> <<>>, root |-> d] : d \in DirOutcomes} \cup
    {[dirs |-> ds, root |-> [kind |-> "unknown", out |-> <<>>]] :
        ds \in { <<[kind |-> "ran", out |-> Suites12], [kind |-> "test_fail", out |-> <<>>]>>,
                 <<[kind |-> "ran", out |-> Suites12], [kind |-> "ran", out |-> Suites21]>> }}

\* get_last_commit_date returned None
NoCommit == [kind |-> "none", t |-> 0]

(***************************************************************************)
(* The body of the try block for one student: what the world did (env)     *)
(* and what the code made of it.                                           *)
(***************************************************************************)
\* the try block raises: a URL without '/' (IndexError at parts[-2]), a
\* failing clone or pull, a failing commit lookup
Raises(repo_url, env) ==
    \/ Len(SplitOn(repo_url, "/")) < 2
    \/ env.git = "fail"
    \/ env.commit.kind = "raise"

Attempt(name, repo_url, env, dl, have) ==
    LET parts == SplitOn(repo_url, "/")
    IN IF Len(parts) < 2
       THEN [raised |-> TRUE, row |-> ErrorRow(name), cloned |-> have,
             seen |-> [git |-> "not_run", tests |-> <<>>, commit |-> NoCommit, args |-> {}]]
       ELSE IF env.git = "fail"
       THEN [raised |-> TRUE, row |-> ErrorRow(name), cloned |-> have,
             seen |-> [git |-> "fail", tests |-> <<>>, commit |-> NoCommit, args |-> {}]]
       ELSE LET test_results == run_tests(env.repo)
                counts == RowCounts(test_results)
                kinds == IF Len(env.repo.dirs) > 0
                         THEN [i \in 1..Len(env.repo.dirs) |-> env.repo.dirs[i].kind]
                         ELSE <<env.repo.root.kind>>
                stat == StatusColumn(env.commit, dl)
            IN IF env.commit.kind = "raise"
               THEN [raised |-> TRUE, row |-> ErrorRow(name),
                     cloned |-> have \cup {RepoPath(parts)},
                     seen |-> [git |-> "ok", tests |-> kinds, commit |-> env.commit,
                               args |-> {}]]
               ELSE [raised |-> FALSE,
                     row |-> Row(name, IntStr(counts.passed), IntStr(counts.failed),
                                 DateColumn(env.commit), stat.value),
                     cloned |-> have \cup {RepoPath(parts)},
                     seen |-> [git |-> "ok", tests |-> kinds, commit |-> env.commit,
                               args |-> stat.args]]

(***************************************************************************)
(* Inputs of the parser: lines a test runner prints, with the numbers      *)
(* drawn from Nums, joined into texts of at most MaxLines lines.           *)
(***************************************************************************)
Nums == {NatStr(n) : n \in 0..MaxCount}

\* 'Test Suites: 1 failed, N passed, M total'
SuitesFailedLine(n, m) ==
    TestSuitesLit \o <<" ", "1", " ", "x", ",">> \o <<" ">> \o n \o SuitesTail1 \o m \o SuitesTail2

\* 'Tests: 3 failed, N passed, M total'
TestsLine(n, m) ==
    <<"x", " ", "3", " ", "x", ",", " ">> \o n \o SuitesTail1 \o m \o SuitesTail2

\* 'ok N passed'
PassedLine(n) == <<"x", " ">> \o n \o <<" ">> \o PassedLit

OddLines ==
    { <<>>, <<"x">>, <<"x", " ", "pas", "sed">>, <<"1", "pas", "sed">>,
      <<"1", "\t", "pas", "sed">>,
      TestSuitesLit \o <<" ", "x">>,
      TestSuitesLit \o <<" ", "2", " ", "x", ",", " ", "2", " ", "total">>,
      TestSuitesLit \o <<"1">> \o SuitesTail1 \o <<"2">> \o SuitesTail2,
      TestSuitesLit \o <<"\t", "1">> \o SuitesTail1 \o <<"2">> \o SuitesTail2,
      TestSuitesLit \o <<" ", "1", "\t", "pas", "sed", ",", " ", "2">> \o SuitesTail2,
      TestSuitesLit \o <<" ", "1">> \o SuitesTail1 \o <<"x">> \o SuitesTail2,
      <<"x", " ">> \o SuitesLine(<<"2">>, <<"1">>) \o <<" ", "x">>,
      SuitesLine(<<"1", "2">>, <<"0", "7">>),
      <<"x", " ", "1", "0", " ", "pas", "sed">> }

InsertAt(line, p, c) == SubSeq(line, 1, p) \o <<c>> \o SubSeq(line, p + 1, Len(line))

\* coloured lines: one escape sequence anywhere in a line
EscBases == {SuitesLine(<<"1">>, <<"2">>), PassedLine(<<"1">>)}

EscLines == UNION {{InsertAt(l, p, "ESC") : p \in 0..Len(l)} : l \in EscBases} \cup
            { <<"ESC">> \o TestSuitesLit \o <<"ESC", " ", "ESC", "2", " ", "pas", "sed",
                "ESC", ",", " ", "1", " ", "total">> }

LineSet ==
    {SuitesLine(n, m) : n \in Nums, m \in {<<"1">>, <<"2">>}} \cup
    {SuitesFailedLine(n, n) : n \in Nums} \cup
    {TestsLine(n, n) : n \in Nums} \cup
    {PassedLine(n) : n \in Nums} \cup OddLines \cup EscLines

\* the lines joined by line breaks
RECURSIVE JoinLines(_)
JoinLines(ls) ==
    IF Len(ls) = 1 THEN ls[1]
    ELSE ls[1] \o <<"\n">> \o JoinLines(Tail(ls))

\* 'Tests: 3 failed, 7 passed, 10 total\nTest Suites: 7 passed, 7 total'
ExampleText ==
    <<"x", " ", "3", " ", "x", ",", " ", "7">> \o SuitesTail1 \o <<"1", "0">> \o SuitesTail2
    \o <<"\n">> \o SuitesLine(<<"7">>, <<"7">>)

(***************************************************************************)
(* Specifications                                                          *)
(***************************************************************************)
NoPair == <<>>

NoDeadline == [has |-> FALSE, soft |-> 0, hard |-> 0]

NoLast == [step |-> "none", git |-> "not_run", tests |-> <<>>, commit |-> NoCommit,
           args |-> {}]

AssignIdle ==
    /\ roster = <<>>
    /\ deadline = NoDeadline
    /\ idx = 1
    /\ cloned = {}
    /\ results_lines = <<>>
    /\ report = <<>>
    /\ last = NoLast
    /\ apc = "idle"

ParseIdle == output = <<>> /\ result = NoPair /\ ppc = "idle"

DeadlineIdle == commit_date = 0 /\ soft = 0 /\ hard = 0 /\ status = "-" /\ dpc = "idle"

\* the captured output: up to MaxLines lines of LineSet, or the example text
InitParse ==
    /\ \/ \E k \in 1..MaxLines : \E ls \in [1..k -> LineSet] : output = JoinLines(ls)
       \/ output = ExampleText
    /\ result = NoPair
    /\ ppc = "call"
    /\ DeadlineIdle
    /\ AssignIdle

\* run_tests hands the captured output to parse_test_output
ParseOutput ==
    /\ ppc = "call"
    /\ result' = parse_test_output(output)
    /\ ppc' = "returned"
    /\ UNCHANGED <<output, deadlineVars, assignVars>>

NextParse == ParseOutput

SpecParse == InitParse /\ [][NextParse]_vars

InitDeadline ==
    /\ commit_date \in 0..MaxTime
    /\ soft \in 0..MaxTime
    /\ hard \in 0..MaxTime
    /\ status = "-"
    /\ dpc = "call"
    /\ ParseIdle
    /\ AssignIdle

Classify ==
    /\ dpc = "call"
    /\ status' = check_deadline(commit_date, soft, hard)
    /\ dpc' = "returned"
    /\ UNCHANGED <<commit_date, soft, hard, parseVars, assignVars>>

NextDeadline == Classify

SpecDeadline == InitDeadline /\ [][NextDeadline]_vars

(***************************************************************************)
(* Inputs of process_assignment: roster lines, the deadline entry of the   *)
(* assignment, and what cloning, testing and the commit lookup do.         *)
(***************************************************************************)
RosterLines ==
    { <<"bob", "\t", "h", "/", "u", "/", "r">>,
      <<"ann", "\t", "h", "/", "u", "/", "r", ".git">>,
      <<"cy", "\t", "nourl", " ">>,
      <<" ">>,
      <<"bob">>,
      <<"ann", "\t", "h", "/", "u", "/", "r", "\t", "cy">> }

RECURSIVE RostersOfLen(_)
RostersOfLen(k) ==
    IF k = 0 THEN {<<>>}
    ELSE {<<l>> \o r : l \in RosterLines, r \in RostersOfLen(k - 1)}

Rosters == UNION {RostersOfLen(k) : k \in 0..MaxRoster}

\* the deadlines of the assignment, written to the minute
AssignSoft == 0

AssignHard == TicksPerMinute

DeadlineEntries ==
    {NoDeadline, [has |-> TRUE, soft |-> AssignSoft, hard |-> AssignHard]}

\* get_last_commit_date: no commit, an exception, or a commit at, between or
\* after the deadlines
CommitOutcomes ==
    {NoCommit, [kind |-> "raise", t |-> 0]} \cup
    {[kind |-> "at", t |-> t] : t \in {AssignSoft, AssignHard, AssignHard + 1}}

Envs ==
    {[git |-> "fail", repo |-> [dirs |-> <<>>, root |-> [kind |-> "unknown", out |-> <<>>]],
      commit |-> NoCommit]} \cup
    {[git |-> "ok", repo |-> r, commit |-> c] : r \in Repos, c \in CommitOutcomes}

InitAssign ==
    /\ roster \in Rosters
    /\ deadline \in DeadlineEntries
    /\ idx = 1
    /\ cloned = {}
    /\ results_lines = <<>>
    /\ report = <<>>
    /\ last = NoLast
    /\ apc = "start"
    /\ ParseIdle
    /\ DeadlineIdle

\* deadlines.get(assignment) is missing: logged, nothing written
NoDeadlineEntry ==
    /\ apc = "start"
    /\ ~deadline.has
    /\ apc' = "skipped"
    /\ UNCHANGED <<roster, deadline, idx, cloned, results_lines, report, last,
                   parseVars, deadlineVars>>

OpenRoster ==
    /\ apc = "start"
    /\ deadline.has
    /\ apc' = "loop"
    /\ UNCHANGED <<roster, deadline, idx, cloned, results_lines, report, last,
                   parseVars, deadlineVars>>

\* if not line.strip(): continue
SkipBlank ==
    /\ apc = "loop"
    /\ idx <= Len(roster)
    /\ strip(roster[idx]) = <<>>
    /\ idx' = idx + 1
    /\ last' = [NoLast EXCEPT !.step = "blank"]
    /\ UNCHANGED <<roster, deadline, cloned, results_lines, report, apc,
                   parseVars, deadlineVars>>

Fields(line) == SplitOn(strip(line), "\t")

\* name, repo_url = line.strip().split('\t') stands before the try: a line
\* without exactly two fields raises ValueError out of process_assignment
UnpackRaises ==
    /\ apc = "loop"
    /\ idx <= Len(roster)
    /\ strip(roster[idx]) # <<>>
    /\ Len(Fields(roster[idx])) # 2
    /\ apc' = "raised"
    /\ last' = [NoLast EXCEPT !.step = "unpack"]
    /\ UNCHANGED <<roster, deadline, idx, cloned, results_lines, report,
                   parseVars, deadlineVars>>

\* a roster line that unpacks into name and repo_url
HasStudent ==
    /\ apc = "loop"
    /\ idx <= Len(roster)
    /\ strip(roster[idx]) # <<>>
    /\ Len(Fields(roster[idx])) = 2

LastOf(a) ==
    [step |-> "student", git |-> a.seen.git, tests |-> a.seen.tests,
     commit |-> a.seen.commit, args |-> a.seen.args]

\* the try block runs to its end: a row with counts
StudentRow ==
    /\ HasStudent
    /\ \E env \in Envs :
          LET f == Fields(roster[idx])
              a == Attempt(f[1], f[2], env, deadline, cloned)
          IN /\ ~Raises(f[2], env)
             /\ ~a.raised
             /\ results_lines' = Append(results_lines, <<f[1], a.row>>)
             /\ cloned' = a.cloned
             /\ last' = LastOf(a)
    /\ idx' = idx + 1
    /\ UNCHANGED <<roster, deadline, report, apc, parseVars, deadlineVars>>

\* the try block raises: except Exception appends the ERROR row
StudentError ==
    /\ HasStudent
    /\ \E env \in Envs :
          LET f == Fields(roster[idx])
              a == Attempt(f[1], f[2], env, deadline, cloned)
          IN /\ Raises(f[2], env)
             /\ a.raised
             /\ results_lines' = Append(results_lines, <<f[1], a.row>>)
             /\ cloned' = a.cloned
             /\ last' = LastOf(a)
    /\ idx' = idx + 1
    /\ UNCHANGED <<roster, deadline, report, apc, parseVars, deadlineVars>>

\* after the loop: sort by name, write the rows
WriteReport ==
    /\ apc = "loop"
    /\ idx > Len(roster)
    /\ report' = [i \in 1..Len(results_lines) |-> SortByName(results_lines)[i][2]]
    /\ apc' = "written"
    /\ UNCHANGED <<roster, deadline, idx, cloned, results_lines, last,
                   parseVars, deadlineVars>>

NextAssign ==
    \/ NoDeadlineEntry
    \/ OpenRoster
    \/ SkipBlank
    \/ UnpackRaises
    \/ StudentRow
    \/ StudentError
    \/ WriteReport

SpecAssign == InitAssign /\ [][NextAssign]_vars

(***************************************************************************)
(* Properties of parse_test_output (checked under SpecParse).              *)
(* A line "matches a pattern" when its text, escape sequences removed,     *)
(* contains a match of the pattern.                                        *)
(***************************************************************************)
Returned == ppc = "returned"

CleanSuites(line) == SearchSuites(ansi_escape_sub(line))

CleanPassed(line) == SearchPassed(ansi_escape_sub(line))

MatchesEither(line) == CleanSuites(line).found \/ CleanPassed(line).found

\* line i is the first line of ls that matches either pattern
FirstMatchingLine(ls, i) ==
    /\ MatchesEither(ls[i])
    /\ \A j \in 1..(i - 1) : ~MatchesEither(ls[j])

\* the line carries the literal 'Test Suites:' and reads
\* '... Test Suites: N passed, M total ...'
IsSuitesLine(line) == Contains(line, TestSuitesLit) /\ CleanSuites(line).found

\* the line carries the word 'passed' and reads '... N passed ...'
IsPassedLine(line) == Contains(line, PassedLit) /\ CleanPassed(line).found

SuitesCounts(line) == <<ToInt(CleanSuites(line).g1), ToInt(CleanSuites(line).g2)>>

PassedCount(line) == ToInt(CleanPassed(line).g1)

\* C1: when the first line that matches either pattern is a
\* 'Test Suites: N passed, M total' line, parse_test_output returns exactly
\* (N, M), whatever lines follow.
C1_SuitesFirstWins ==
    Returned =>
        LET ls == split(output)
        IN \A i \in 1..Len(ls) :
               (FirstMatchingLine(ls, i) /\ IsSuitesLine(ls[i]))
                   => result = SuitesCounts(ls[i])

\* a Test Suites line with N # M followed by a line with another count
C1_Witness ==
    /\ Returned
    /\ result = <<1, 2>>
    /\ LET ls == split(output)
       IN /\ Len(ls) = 2
          /\ FirstMatchingLine(ls, 1)
          /\ IsSuitesLine(ls[1])
          /\ ~IsSuitesLine(ls[2])
          /\ IsPassedLine(ls[2])
          /\ PassedCount(ls[2]) = 0

NoSuitesLiteral(ls) ==
    \A i \in 1..Len(ls) :
        /\ ~Contains(ls[i], TestSuitesLit)
        /\ ~Contains(ansi_escape_sub(ls[i]), TestSuitesLit)

FirstPassedLine(ls, i) ==
    /\ CleanPassed(ls[i]).found
    /\ \A j \in 1..(i - 1) : ~CleanPassed(ls[j]).found

C10_ElseIf ==
    Returned =>
        LET ls == split(output)
        IN (Contains(ls[1], TestSuitesLit) /\ ~CleanSuites(ls[1]).found)
               => result = ScanLines(ls, 2)

\* the text is one line: split('\n') gives a single element
SingleLine(text) == Len(split(text)) = 1

\* the single-line inputs whose text after ansi_escape.sub('', line) is that
\* of the given line
SameStripped(line) ==
    {l \in LineSet : ansi_escape_sub(l) = ansi_escape_sub(line)}

\* C11 as claimed: the result for a single-line input depends only on its
\* text after the ANSI escape sequences are removed: every single-line input
\* with the same stripped text (the stripped text itself among them) gives
\* the same (passed, total), wherever the escape sequences sit.
C11_StrippedTextDecides ==
    (Returned /\ SingleLine(output)) =>
        \A l \in SameStripped(output) : parse_test_output(l) = result

(***************************************************************************)
(* Properties of check_deadline (checked under SpecDeadline).              *)
(***************************************************************************)
\* C4: with soft <= hard the status is on_time_soft iff commit_date <= soft,
\* on_time_hard iff soft < commit_date <= hard, late iff commit_date > hard;
\* commit_date = soft gives on_time_soft, commit_date = hard (later than
\* soft) gives on_time_hard, commit_date = hard + 1 gives late.
C4_DeadlineClasses ==
    (dpc = "returned" /\ soft <= hard) =>
        /\ (status = "on_time_soft" <=> commit_date <= soft)
        /\ (status = "on_time_hard" <=> (soft < commit_date /\ commit_date <= hard))
        /\ (status = "late" <=> commit_date > hard)
        /\ (commit_date = soft => status = "on_time_soft")
        /\ ((commit_date = hard /\ soft < hard) => status = "on_time_hard")
        /\ (commit_date = hard + 1 => status = "late")

\* a commit exactly at a hard deadline that is later than the soft one
C4_Witness ==
    /\ dpc = "returned"
    /\ soft < hard
    /\ commit_date = hard
    /\ status = "on_time_hard"

(***************************************************************************)
(* C9 and the parser (checked under SpecParse).                            *)
(***************************************************************************)
\* the failed count of a repository whose only outcome is the parser's result
FailedOfResult == RowCounts(<<result>>).failed

\* line i of ls is a Test Suites line with N > M, no line before it yields a
\* result, and the result is its (N, M)
SuitesLineOverTotal(ls, i) ==
    /\ IsSuitesLine(ls[i])
    /\ \A j \in 1..(i - 1) : ~IsSuitesLine(ls[j]) /\ ~IsPassedLine(ls[j])
    /\ SuitesCounts(ls[i])[1] > SuitesCounts(ls[i])[2]
    /\ result = SuitesCounts(ls[i])

Columns(row) == SplitOn(SubSeq(row, 1, Len(row) - 1), "\t")

NonBlank == {i \in 1..Len(roster) : strip(roster[i]) # <<>>}

RowsNamed(name) == {k \in 1..Len(report) : Columns(report[k])[1] = name}

LinesNamed(name) == {i \in NonBlank : Fields(roster[i])[1] = name}

IsErrorRow(row) ==
    /\ Columns(row)[2] = <<"ERROR">>
    /\ Columns(row)[3] = <<"ERROR">>
    /\ Columns(row)[4] = <<"-">>
    /\ Columns(row)[5] = <<"-">>

\* C5: the written report has exactly one row per non-blank roster line and
\* its rows are in non-decreasing order of student name.
C5_OneRowPerLineSorted ==
    apc = "written" =>
        /\ Len(report) = Cardinality(NonBlank)
        /\ \A i \in NonBlank :
              Cardinality(RowsNamed(Fields(roster[i])[1]))
                  = Cardinality(LinesNamed(Fields(roster[i])[1]))
        /\ \A k \in 1..Len(report) :
              /\ Len(Columns(report[k])) = 5
              /\ report[k][Len(report[k])] = "\n"
        /\ \A k \in 1..(Len(report) - 1) :
              ~StrLess(Columns(report[k + 1])[1], Columns(report[k])[1])

\* a roster whose two lines are out of name order, one of them failing
C5_Witness ==
    /\ apc = "written"
    /\ Len(roster) = 2
    /\ StrLess(Fields(roster[2])[1], Fields(roster[1])[1])
    /\ Len(report) = 2
    /\ IsErrorRow(report[1])
    /\ ~IsErrorRow(report[2])

\* C6 as claimed: whatever goes wrong with one roster line, the batch is not
\* aborted: process_assignment never ends by raising.
C6_NeverAborts == apc # "raised"

LastRow == results_lines[Len(results_lines)][2]

LastName == results_lines[Len(results_lines)][1]

CommandFailed(k) == k \in {"install_fail", "test_fail"}

\* C7 as claimed: a student whose clone fails or whose install or test
\* command fails gets the row 'name, ERROR, ERROR, -, -'.
C7_FailureGivesErrorRow ==
    (last.step = "student" /\
        (last.git = "fail" \/ \E i \in 1..Len(last.tests) : CommandFailed(last.tests[i])))
        => IsErrorRow(LastRow)

\* C7 amended: a failing clone or pull gives the row 'name, ERROR, ERROR, -, -';
\* a failing install or test command gives (0, 0) for its directory, and
\* unless the commit lookup raises the row carries numeric counts, 0 and 0
\* when the commands fail in every directory.
C7_CloneErrorTestsZero ==
    last.step = "student" =>
        /\ last.git = "fail" =>
              Columns(LastRow) = <<LastName, <<"ERROR">>, <<"ERROR">>, <<"-">>, <<"-">>>>
        /\ (last.git = "ok" /\ last.commit.kind # "raise") =>
              /\ \A c \in {2, 3} : Columns(LastRow)[c] # <<"ERROR">>
              /\ (\A i \in 1..Len(last.tests) : CommandFailed(last.tests[i])) =>
                    (Columns(LastRow)[2] = <<"0">> /\ Columns(LastRow)[3] = <<"0">>)

\* the test command fails and the student still gets a row with counts
C7_Witness ==
    /\ last.step = "student"
    /\ last.git = "ok"
    /\ last.tests = <<"test_fail">>
    /\ last.commit.kind = "at"
    /\ Columns(LastRow)[2] = <<"0">>
    /\ Columns(LastRow)[3] = <<"0">>
    /\ Columns(LastRow)[5] = <<"late">>

\* C8: check_deadline is never called without a commit date; a repository
\* without one gets '-' in the date and the status column, and in every row
\* the status is '-' exactly when the date is '-'.
C8_NoCommitGivesDashes ==
    /\ last.args \subseteq {"at"}
    /\ (last.step = "student" /\ last.git = "ok" /\ last.commit.kind = "none") =>
          (Columns(LastRow)[4] = <<"-">> /\ Columns(LastRow)[5] = <<"-">>)
    /\ \A k \in 1..Len(results_lines) :
          Columns(results_lines[k][2])[5] = <<"-">>
              <=> Columns(results_lines[k][2])[4] = <<"-">>
    /\ \A k \in 1..Len(report) :
          Columns(report[k])[5] = <<"-">> <=> Columns(report[k])[4] = <<"-">>

\* a repository without commits: counts, then two dashes
C8_Witness ==
    /\ last.step = "student"
    /\ last.git = "ok"
    /\ last.commit.kind = "none"
    /\ last.args = {}
    /\ ~IsErrorRow(LastRow)
    /\ Columns(LastRow)[4] = <<"-">>
    /\ Columns(LastRow)[5] = <<"-">>

====
